---- MODULE Spec2Model ----
(***************************************************************************)
(* Model of the omni-lock device server (src/bike_lock_controller.py) and  *)
(* of the HTTP routes that call it (src/api.py).                           *)
(*                                                                         *)
(* Every thread of the program is a process of the model: the accept loop, *)
(* one session per connection, each call of unlock / lock / get_status,    *)
(* stop() and get_locks().  A step is what a thread does between two       *)
(* points where another thread can observe or change the shared dicts and  *)
(* sockets.  The specifications are scenarios over the same state: Spec    *)
(* (the dispatcher against one remote address), SpecSessions (several      *)
(* devices at once), SpecShutdown (stop() and get_locks() against the      *)
(* sessions), SpecStream (byte streams cut into reads in several ways),    *)
(* SpecDispatchShutdown (the dispatcher against stop()) and SpecCodec (the *)
(* frame codec on bounded inputs).                                         *)
(*                                                                         *)
(* pending and answer record history the program does not keep: which      *)
(* commands were written to a transport and not acknowledged by the        *)
(* device, and what the acknowledgement said.  trace records, in the       *)
(* scenarios that start with it switched on, what each device has sent and *)
(* what each read of its session made of it.                               *)
(*                                                                         *)
(* Python values are represented as follows.  A str / bytes value is a     *)
(* sequence of one-character strings; the byte 0xFF (not ASCII) is the     *)
(* element "0xFF".  A list of str is a sequence of such sequences.  None   *)
(* is NoneStr where a str is expected and NoneList where a list is.        *)
(***************************************************************************)
EXTENDS Integers, Sequences, FiniteSets, TLC

VARIABLES
    running,          \* self.running
    server_socket,    \* self.server_socket: "none" (None), "open" or "closed"
    acceptPc,         \* position of the _accept_connections thread
    connected_locks,  \* self.connected_locks: a dict, as its entry table
    lock_info,        \* self.lock_info: lock_id -> imei (NoneStr: key absent)
    sessPc,           \* position of each _handle_lock_connection thread
    sessId,           \* its lock_id
    sockClosed,       \* the server has closed this client socket
    peer,             \* the device's end of the connection: "up" or "gone"
    inbuf,            \* chunks the device has sent and recv has not returned
    wire,             \* frames sock.send has handed to the transport
    trace,            \* per socket: the chunks sent to it and the reads handled
    calls,            \* the calls of unlock / lock / get_status
    pending,          \* per socket: calls sent on it and not acknowledged
    answer,           \* per call: what the device's acknowledgement said
    stopPc, stopIt, stopCur,   \* the thread running stop()
    listPc, listIt, listOut,   \* the request running get_locks()
    codec             \* the frame codec applied to a bounded set of inputs

vSrv == <<running, server_socket, acceptPc>>
vReg == <<connected_locks, lock_info>>
vSess == <<sessPc, sessId>>
vSock == <<sockClosed, peer, inbuf, wire, trace>>
vCall == <<calls, pending, answer>>
vStop == <<stopPc, stopIt, stopCur>>
vList == <<listPc, listIt, listOut>>
sysvars == <<vSrv, vReg, vSess, vSock, vCall, vStop, vList>>
vars == <<sysvars, codec>>

\* ------------------------------------------------------------------ bounds
MaxFields == 5     \* fields after the header of a raw frame handed to the decoder
MaxParams == 2     \* parameters of a command handed to the encoder
MaxSock == 2       \* connections accepted over the server's life
MaxCalls == 2      \* dispatcher calls made over the server's life
MaxInFlight == 1   \* chunks a device may have sent and the session not read
MaxStream == 2     \* chunks a device sends on a connection whose trace is recorded

\* ------------------------------------------------------- Python primitives
NoneStr == <<"None">>
NoneList == << <<"None">> >>

XFF == "0xFF"
Whitespace == {" ", "\n", "\r", "\t"}

\* str.startswith(prefix)
startswith(s, p) == Len(s) >= Len(p) /\ SubSeq(s, 1, Len(p)) = p

RECURSIVE lstrip(_)
\* str.lstrip(): leading whitespace removed
lstrip(s) == IF s # <<>> /\ Head(s) \in Whitespace THEN lstrip(Tail(s)) ELSE s

RECURSIVE rstrip(_, _)
\* str.rstrip(chars): every trailing character that is in chars removed
rstrip(s, chars) ==
    IF s # <<>> /\ s[Len(s)] \in chars THEN rstrip(SubSeq(s, 1, Len(s) - 1), chars) ELSE s

\* str.strip()
strip(s) == rstrip(lstrip(s), Whitespace)

RECURSIVE split(_, _)
\* str.split(sep) for a one-character separator: always at least one part
split(s, sep) ==
    IF \E i \in 1..Len(s) : s[i] = sep
    THEN LET i == CHOOSE k \in 1..Len(s) : s[k] = sep /\ \A j \in 1..(k - 1) : s[j] # sep
         IN  <<SubSeq(s, 1, i - 1)>> \o split(SubSeq(s, i + 1, Len(s)), sep)
    ELSE <<s>>

RECURSIVE join(_, _)
\* sep.join(parts)
join(sep, parts) ==
    IF parts = <<>> THEN <<>>
    ELSE IF Len(parts) = 1 THEN parts[1]
    ELSE parts[1] \o sep \o join(sep, Tail(parts))

Digit(d) == <<"0", "1", "2", "3", "4", "5", "6", "7", "8", "9">>[d + 1]

RECURSIVE Dec(_)
\* str(n) for a natural number n
Dec(n) == IF n < 10 THEN <<Digit(n)>> ELSE Dec(n \div 10) \o <<Digit(n % 10)>>

\* a strftime field of two digits ("%y", "%m", "%d", "%H", "%M", "%S")
TwoDigits(n) == <<Digit((n \div 10) % 10), Digit(n % 10)>>

\* datetime.now().strftime("%y%m%d%H%M%S") at the instant t
strftime(t) ==
    TwoDigits(t.year) \o TwoDigits(t.month) \o TwoDigits(t.day)
        \o TwoDigits(t.hour) \o TwoDigits(t.minute) \o TwoDigits(t.second)

\* ------------------------------------------------------------ Frame codec
PREFIX_BYTES == <<XFF, XFF>>
CMD_HEADER == <<"*", "C", "M", "D", "S">>
MANUFACTURER == <<"O", "M">>
RSP_HEADER == <<"*", "C", "M", "D", "R">>

\* BikeLockServer._format_command(imei, cmd, *params) called at the instant t
_format_command(imei, cmd, params, t) ==
    LET timestamp == strftime(t)
        params_str == IF params # <<>> THEN join(<<",">>, params) ELSE <<>>
        cmd_str == CMD_HEADER \o <<",">> \o MANUFACTURER \o <<",">> \o imei \o <<",">>
                       \o timestamp \o <<",">> \o cmd
        with_params == IF params_str # <<>> THEN cmd_str \o <<",">> \o params_str
                       ELSE cmd_str
    IN  PREFIX_BYTES \o with_params \o <<"#", "\n">>

ParseFail == [raised |-> FALSE, imei |-> NoneStr, cmd |-> NoneStr, params |-> NoneList]
ParseRaise == [raised |-> TRUE, imei |-> NoneStr, cmd |-> NoneStr, params |-> NoneList]

\* the try block of _parse_response: raised is TRUE where a statement of the
\* block raises (bytes.decode('ascii') on a byte that is not ASCII)
ParseTry(data) ==
    IF \E i \in 1..Len(data) : data[i] = XFF THEN ParseRaise
    ELSE LET msg == strip(data)
         IN  IF ~startswith(msg, RSP_HEADER) THEN ParseFail
             ELSE LET parts == split(rstrip(msg, {"#"}), ",")
                  IN  IF Len(parts) < 5 THEN ParseFail
                      ELSE [raised |-> FALSE,
                            imei |-> parts[3],
                            cmd |-> parts[5],
                            params |-> IF Len(parts) > 5 THEN SubSeq(parts, 6, Len(parts))
                                       ELSE <<>>]

\* a decoder that forgets the header test
ParseNoHeader(data) ==
    IF \E i \in 1..Len(data) : data[i] = XFF THEN ParseFail
    ELSE LET parts == split(rstrip(strip(data), {"#"}), ",")
         IN  IF Len(parts) < 5 THEN ParseFail
             ELSE [raised |-> FALSE, imei |-> parts[3], cmd |-> parts[5],
                   params |-> SubSeq(parts, 6, Len(parts))]

\* a decoder that takes the parameters from the command field on
ParseOffByOne(data) ==
    IF ParseTry(data).raised \/ ParseTry(data) = ParseFail THEN ParseFail
    ELSE LET parts == split(rstrip(strip(data), {"#"}), ",")
         IN  [raised |-> FALSE, imei |-> parts[3], cmd |-> parts[5],
              params |-> SubSeq(parts, 5, Len(parts))]

\* BikeLockServer._parse_response(data): except Exception returns the Nones
_parse_response(data) ==
    IF ParseTry(data).raised THEN ParseFail ELSE ParseTry(data)

\* the frame a device sends that repeats an outbound frame: the 0xFFFF prefix
\* dropped and the header *CMDS replaced by *CMDR
AsDeviceFrame(frame) ==
    RSP_HEADER \o SubSeq(frame, Len(PREFIX_BYTES) + Len(CMD_HEADER) + 1, Len(frame))

\* ------------------------------------------------------------- dict model
\* A dict is its table of entries in insertion order; a deleted entry leaves
\* DUMMY in its slot and a new key is appended (CPython's compact dict; the
\* table is not rebuilt within MaxSock insertions).
NoKey == <<"", "", 0>>
DUMMY == [k |-> NoKey, v |-> 0]

\* key in d
Has(d, key) == \E i \in 1..Len(d) : d[i].k = key

\* d[key], for a key that is present
Get(d, key) == d[CHOOSE i \in 1..Len(d) : d[i].k = key].v

\* d[key] = value
SetItem(d, key, value) ==
    IF Has(d, key)
    THEN [i \in 1..Len(d) |-> IF d[i].k = key THEN [k |-> key, v |-> value] ELSE d[i]]
    ELSE Append(d, [k |-> key, v |-> value])

\* del d[key], for a key that is present
DelItem(d, key) == [i \in 1..Len(d) |-> IF d[i].k = key THEN DUMMY ELSE d[i]]

\* len(d)
Used(d) == Cardinality({i \in 1..Len(d) : d[i] # DUMMY})

\* the keys of d
Keys(d) == {d[i].k : i \in {j \in 1..Len(d) : d[j] # DUMMY}}

\* iter(d): position in the table, the size at creation, the items left
NewIter(d) == [pos |-> 1, used |-> Used(d), len |-> Used(d)]
NoIter == [pos |-> 0, used |-> 0, len |-> 0]

\* next(it) on d: "error" is RuntimeError (dictionary changed size, or keys
\* changed, during iteration), "stop" is StopIteration, "item" yields d[idx]
IterNext(d, it) ==
    IF it.used # Used(d) THEN [status |-> "error", idx |-> 0, it |-> it]
    ELSE LET rest == {i \in it.pos..Len(d) : d[i] # DUMMY}
         IN  IF rest = {} THEN [status |-> "stop", idx |-> 0, it |-> it]
             ELSE IF it.len = 0 THEN [status |-> "error", idx |-> 0, it |-> it]
             ELSE LET i == CHOOSE m \in rest : \A n \in rest : m <= n
                  IN  [status |-> "item", idx |-> i,
                       it |-> [pos |-> i + 1, used |-> it.used, len |-> it.len - 1]]

\* ------------------------------------------------------------ identities
Addresses == {<<"10.0.0.1", 5001>>, <<"10.0.0.2", 5002>>}

\* lock_id = f"lock_{address[0]}_{address[1]}"
LockId(address) == <<"lock", address[1], address[2]>>

LockIds == {LockId(a) : a \in Addresses}
Socks == 1..MaxSock
Calls == 1..MaxCalls

\* ------------------------------------------------------- message handling
Q0 == <<"Q", "0">>
H0 == <<"H", "0">>
L0 == <<"L", "0">>
L1 == <<"L", "1">>
S5 == <<"S", "5">>

Digits == {"0", "1", "2", "3", "4", "5", "6", "7", "8", "9"}

\* int(s) does not raise ValueError: optional whitespace around an optional
\* sign and at least one digit (digit-group underscores are not modelled)
IntOk(s) ==
    LET t == strip(s)
        body == IF t # <<>> /\ Head(t) \in {"+", "-"} THEN Tail(t) ELSE t
    IN  body # <<>> /\ \A i \in 1..Len(body) : body[i] \in Digits

\* a test that lets every imei through
NeverFalsy(imei) == FALSE

\* not imei: None or the empty string
Falsy(imei) == imei = NoneStr \/ imei = <<>>

\* The branches of _handle_lock_message after the IMEI is stored: raised is
\* TRUE where the branch raises (IndexError on params[0], ValueError on a
\* tuple unpacking of the wrong length or on int() of a non-number); ack is
\* the acknowledgement the branch logs ("Success" / "Failed" for L0 and L1,
\* "Status" for S5, "none" otherwise).
Classify(cmd, params) ==
    IF cmd = Q0
    THEN [raised |-> params # <<>> /\ ~IntOk(params[1]), ack |-> "none"]
    ELSE IF cmd = H0
    THEN [raised |-> Len(params) > 3 \/ (Len(params) = 3 /\ ~IntOk(params[2])),
          ack |-> "none"]
    ELSE IF cmd \in {L0, L1}
    THEN IF params = <<>> THEN [raised |-> TRUE, ack |-> "none"]
         ELSE [raised |-> FALSE,
               ack |-> IF params[1] = <<"0">> THEN "Success" ELSE "Failed"]
    ELSE IF cmd = S5
    THEN IF Len(params) >= 5
         THEN IF Len(params) > 5 \/ ~IntOk(params[1])
              THEN [raised |-> TRUE, ack |-> "none"]
              ELSE [raised |-> FALSE, ack |-> "Status"]
         ELSE [raised |-> FALSE, ack |-> "Status"]
    ELSE [raised |-> FALSE, ack |-> "none"]

\* a store that keeps the first IMEI an identity was given
StoreFirst(info, lock_id, imei) ==
    IF info[lock_id] = NoneStr THEN [info EXCEPT ![lock_id] = imei] ELSE info

\* self.lock_info[lock_id] = {"imei": imei}
StoreImei(info, lock_id, imei) == [info EXCEPT ![lock_id] = imei]

\* BikeLockServer._handle_lock_message(lock_id, data) on the lock_info info:
\* the lock_info it leaves, whether it raised, the frame it classified
_handle_lock_message(info, lock_id, data) ==
    LET r == _parse_response(data)
    IN  IF Falsy(r.imei)
        THEN [info |-> info, raised |-> FALSE, ack |-> "none", cmd |-> NoneStr,
              decoded |-> FALSE]
        ELSE [info |-> StoreImei(info, lock_id, r.imei),
              raised |-> Classify(r.cmd, r.params).raised,
              ack |-> Classify(r.cmd, r.params).ack,
              cmd |-> r.cmd,
              decoded |-> TRUE]

\* --------------------------------------------------------- device traffic
IMEI_A == <<"8", "6", "0">>
IMEI_B == <<"8", "6", "1">>
STAMP == <<"2", "4", "0", "1", "0", "1", "1", "2", "0", "0", "0", "0">>

\* the frame a device sends: *CMDR,OM,<imei>,<timestamp>,<code>[,<params>]#
DeviceFrame(imei, cmd, params) ==
    join(<<",">>, <<RSP_HEADER, MANUFACTURER, imei, STAMP, cmd>> \o params) \o <<"#">>

\* what a device may put on the stream in one piece
DeviceChunks ==
    { DeviceFrame(IMEI_A, Q0, << <<"3", "9", "5">> >>),
      DeviceFrame(IMEI_B, Q0, << <<"3", "9", "5">> >>),
      DeviceFrame(IMEI_A, L0, << <<"0">> >>),
      DeviceFrame(IMEI_A, L0, << <<"1">> >>),
      DeviceFrame(IMEI_A, L0, <<>>),
      <<"g", "a", "r", "b", "a", "g", "e">> }

RECURSIVE Flatten(_)
\* the bytes of a sequence of chunks
Flatten(chunks) == IF chunks = <<>> THEN <<>> ELSE Head(chunks) \o Flatten(Tail(chunks))

RECV_SIZE == 1024

\* client_socket.recv(1024) on the buffered bytes: what it returns
RecvData(chunks) ==
    LET bytes == Flatten(chunks)
    IN  IF Len(bytes) <= RECV_SIZE THEN bytes ELSE SubSeq(bytes, 1, RECV_SIZE)

\* ... and what it leaves in the buffer
RecvRest(chunks) ==
    LET bytes == Flatten(chunks)
    IN  IF Len(bytes) <= RECV_SIZE THEN <<>>
        ELSE <<SubSeq(bytes, RECV_SIZE + 1, Len(bytes))>>

\* the instants the clock is read at
Instants ==
    { [year |-> 2024, month |-> 1, day |-> 1, hour |-> 12, minute |-> 0, second |-> 1,
       epoch |-> 1704110401] }
CodecInstants ==
    Instants \cup
    { [year |-> 2009, month |-> 12, day |-> 31, hour |-> 23, minute |-> 59, second |-> 59,
       epoch |-> 1262303999] }

USER_ID == <<"1", "2", "3", "4">>

\* ------------------------------------------------------------------- Init
NoCall == [pc |-> "idle", op |-> "none", lock_id |-> NoKey, reset_time |-> TRUE,
           cmd |-> <<>>, sock |-> 0, res |-> "none", sent |-> 0]
NoCodec == [stage |-> "off", imei |-> <<>>, cmd |-> <<>>, params |-> <<>>,
            frame |-> <<>>, out |-> ParseFail]

\* the trace of a scenario that records none, and the empty trace
NoTrace == [on |-> FALSE, sent |-> [s \in Socks |-> <<>>], handled |-> [s \in Socks |-> <<>>]]
EmptyTrace == [NoTrace EXCEPT !.on = TRUE]

\* BikeLockServer.__init__, and no thread started
ProgInit ==
    /\ running = FALSE
    /\ server_socket = "none"
    /\ acceptPc = "none"
    /\ connected_locks = <<>>
    /\ lock_info = [k \in LockIds |-> NoneStr]
    /\ sessPc = [s \in Socks |-> "none"]
    /\ sessId = [s \in Socks |-> NoKey]
    /\ sockClosed = [s \in Socks |-> FALSE]
    /\ peer = [s \in Socks |-> "up"]
    /\ inbuf = [s \in Socks |-> <<>>]
    /\ wire = [s \in Socks |-> <<>>]
    /\ calls = [c \in Calls |-> NoCall]
    /\ pending = [s \in Socks |-> <<>>]
    /\ answer = [c \in Calls |-> "none"]
    /\ stopPc = "idle"
    /\ stopIt = NoIter
    /\ stopCur = 0
    /\ listPc = "idle"
    /\ listIt = NoIter
    /\ listOut = <<>>

SysInit == ProgInit /\ trace = NoTrace

Init == SysInit /\ codec = NoCodec

\* --------------------------------------------------------------- Listener
\* BikeLockServer.start(): the socket is bound and the accept thread started
Start ==
    /\ server_socket = "none"
    /\ server_socket' = "open"
    /\ running' = TRUE
    /\ acceptPc' = "loop"
    /\ UNCHANGED <<vReg, vSess, vSock, vCall, vStop, vList, codec>>

\* BikeLockServer.start() where bind or listen raises: False is returned
StartFails ==
    /\ server_socket = "none"
    /\ server_socket' = "unbound"
    /\ UNCHANGED <<running, acceptPc, vReg, vSess, vSock, vCall, vStop, vList, codec>>

\* _accept_connections: while self.running
AcceptLoop ==
    /\ acceptPc = "loop"
    /\ acceptPc' = IF running THEN "accept" ELSE "exit"
    /\ UNCHANGED <<running, server_socket, vReg, vSess, vSock, vCall, vStop, vList, codec>>

\* the least socket no connection has used yet
FreshSock(s) == sessPc[s] = "none" /\ \A t \in Socks : t < s => sessPc[t] # "none"

\* the remote address is that of no connection the server still holds open
AddressFree(a) == \A s \in Socks : sessId[s] = LockId(a) => sockClosed[s]

\* _accept_connections: accept() returns a connection and its thread is started
Accept(s, a) ==
    /\ acceptPc = "accept"
    /\ server_socket = "open"
    /\ FreshSock(s)
    /\ AddressFree(a)
    /\ sessPc' = [sessPc EXCEPT ![s] = "start"]
    /\ sessId' = [sessId EXCEPT ![s] = LockId(a)]
    /\ acceptPc' = "loop"
    /\ UNCHANGED <<running, server_socket, vReg, vSock, vCall, vStop, vList,
                   codec>>

\* _accept_connections: accept() raises on the closed listening socket
AcceptFails ==
    /\ acceptPc = "accept"
    /\ server_socket = "closed"
    /\ acceptPc' = "loop"
    /\ UNCHANGED <<running, server_socket, vReg, vSess, vSock, vCall, vStop, vList, codec>>

\* ----------------------------------------------------------------- Device
\* the device writes a chunk to its connection
DeviceSend(s, chunk) ==
    /\ sessPc[s] # "none"
    /\ peer[s] = "up"
    /\ ~sockClosed[s]
    /\ Len(inbuf[s]) < MaxInFlight
    /\ trace.on => Len(trace.sent[s]) < MaxStream
    /\ inbuf' = [inbuf EXCEPT ![s] = Append(@, chunk)]
    /\ trace' = IF trace.on THEN [trace EXCEPT !.sent[s] = Append(@, chunk)] ELSE trace
    /\ UNCHANGED <<vSrv, vReg, vSess, sockClosed, peer, wire, vCall, vStop, vList, codec>>

\* the device closes its connection, or the connection breaks
DeviceClose(s) ==
    /\ sessPc[s] # "none"
    /\ peer[s] = "up"
    /\ ~sockClosed[s]
    /\ peer' = [peer EXCEPT ![s] = "gone"]
    /\ UNCHANGED <<vSrv, vReg, vSess, sockClosed, inbuf, wire, trace, vCall, vStop, vList,
                   codec>>

\* ---------------------------------------------------- Connection session
\* the code an operation sends
OpCode(op) == IF op = "unlock" THEN L0 ELSE IF op = "lock" THEN L1 ELSE S5

\* positions in pend of the calls whose command code is cmd
Matching(pend, cmd) == {i \in 1..Len(pend) : OpCode(calls[pend[i]].op) = cmd}

\* the position of the oldest of them
Oldest(pend, cmd) == CHOOSE i \in Matching(pend, cmd) : \A j \in Matching(pend, cmd) : i <= j

\* pend without the element at position i
Without(pend, i) == SubSeq(pend, 1, i - 1) \o SubSeq(pend, i + 1, Len(pend))

\* _handle_lock_connection: self.connected_locks[lock_id] = client_socket
SessRegister(s) ==
    /\ sessPc[s] = "start"
    /\ connected_locks' = SetItem(connected_locks, sessId[s], s)
    /\ sessPc' = [sessPc EXCEPT ![s] = "loop"]
    /\ UNCHANGED <<vSrv, lock_info, sessId, vSock, vCall, vStop, vList, codec>>

\* _handle_lock_connection: while self.running
SessLoop(s) ==
    /\ sessPc[s] = "loop"
    /\ sessPc' = [sessPc EXCEPT ![s] = IF running THEN "recv" ELSE "fin_check"]
    /\ UNCHANGED <<vSrv, vReg, sessId, vSock, vCall, vStop, vList, codec>>

\* recv raises: the socket was closed by the server, or the connection was
\* reset (an I/O error, possible once the device's end is gone)
SessRecvError(s) ==
    /\ sessPc[s] = "recv"
    /\ sockClosed[s] \/ peer[s] = "gone"
    /\ sessPc' = [sessPc EXCEPT ![s] = "fin_check"]
    /\ UNCHANGED <<vSrv, vReg, sessId, vSock, vCall, vStop, vList, codec>>

\* recv returns b"": the device has closed and everything sent was read
SessRecvEof(s) ==
    /\ sessPc[s] = "recv"
    /\ ~sockClosed[s]
    /\ peer[s] = "gone"
    /\ inbuf[s] = <<>>
    /\ sessPc' = [sessPc EXCEPT ![s] = "fin_check"]
    /\ UNCHANGED <<vSrv, vReg, sessId, vSock, vCall, vStop, vList, codec>>

\* what the trace keeps of one read: the bytes recv returned and what
\* _handle_lock_message made of them
Handled(h, data) ==
    [data |-> data, decoded |-> h.decoded, raised |-> h.raised,
     imei |-> _parse_response(data).imei, cmd |-> _parse_response(data).cmd,
     params |-> _parse_response(data).params]

\* recv returns data and _handle_lock_message handles it; an exception it
\* raises is caught by except Exception and leads to the finally block
SessRecvData(s) ==
    /\ sessPc[s] = "recv"
    /\ ~sockClosed[s]
    /\ inbuf[s] # <<>>
    /\ LET h == _handle_lock_message(lock_info, sessId[s], RecvData(inbuf[s]))
           acked == h.ack # "none" /\ Matching(pending[s], h.cmd) # {}
       IN  /\ lock_info' = h.info
           /\ sessPc' = [sessPc EXCEPT ![s] = IF h.raised THEN "fin_check" ELSE "loop"]
           /\ pending' = IF acked
                         THEN [pending EXCEPT ![s] = Without(@, Oldest(@, h.cmd))]
                         ELSE pending
           /\ answer' = IF acked
                        THEN [answer EXCEPT ![pending[s][Oldest(pending[s], h.cmd)]] = h.ack]
                        ELSE answer
           /\ trace' = IF trace.on
                       THEN [trace EXCEPT !.handled[s] = Append(@, Handled(h, RecvData(inbuf[s])))]
                       ELSE trace
    /\ inbuf' = [inbuf EXCEPT ![s] = RecvRest(@)]
    /\ UNCHANGED <<vSrv, connected_locks, sessId, sockClosed, peer, wire, calls, vStop,
                   vList, codec>>

\* finally: if lock_id and lock_id in self.connected_locks
SessFinCheck(s) ==
    /\ sessPc[s] = "fin_check"
    /\ sessPc' = [sessPc EXCEPT ![s] = IF Has(connected_locks, sessId[s]) THEN "fin_del"
                                       ELSE "fin_close"]
    /\ UNCHANGED <<vSrv, vReg, sessId, vSock, vCall, vStop, vList, codec>>

\* a finally block that empties the registry
FinallyClear(d, lock_id) == <<>>

\* del self.connected_locks[lock_id], for a key that is present
FinallyDel(d, lock_id) == DelItem(d, lock_id)

\* finally: del self.connected_locks[lock_id]; KeyError, where the key has gone
\* since the test, leaves the thread without closing the socket
SessFinDel(s) ==
    /\ sessPc[s] = "fin_del"
    /\ IF Has(connected_locks, sessId[s])
       THEN /\ connected_locks' = FinallyDel(connected_locks, sessId[s])
            /\ sessPc' = [sessPc EXCEPT ![s] = "fin_close"]
       ELSE /\ connected_locks' = connected_locks
            /\ sessPc' = [sessPc EXCEPT ![s] = "crashed"]
    /\ UNCHANGED <<vSrv, lock_info, sessId, vSock, vCall, vStop, vList, codec>>

\* finally: client_socket.close(); what was not read is discarded
SessFinClose(s) ==
    /\ sessPc[s] = "fin_close"
    /\ sockClosed' = [sockClosed EXCEPT ![s] = TRUE]
    /\ inbuf' = [inbuf EXCEPT ![s] = <<>>]
    /\ sessPc' = [sessPc EXCEPT ![s] = "done"]
    /\ UNCHANGED <<vSrv, vReg, sessId, peer, wire, trace, vCall, vStop, vList, codec>>

SessionStep(s) ==
    \/ SessRegister(s)
    \/ SessLoop(s)
    \/ SessRecvError(s)
    \/ SessRecvEof(s)
    \/ SessRecvData(s)
    \/ SessFinCheck(s)
    \/ SessFinDel(s)
    \/ SessFinClose(s)

\* ----------------------------------------------------- Command dispatcher
Ops == {"unlock", "lock", "get_status"}

\* a dispatcher that does not test the identity
NeverUnrecognized(info, lock_id) == FALSE

\* unlock / lock / get_status: lock_id not in self.lock_info
NotRecognized(info, lock_id) == info[lock_id] = NoneStr

\* the frame unlock / lock / get_status format for the device imei
CommandFor(op, imei, reset_time, t) ==
    IF op = "unlock"
    THEN _format_command(imei, L0,
             <<IF ~reset_time THEN <<"1">> ELSE <<"0">>, USER_ID, Dec(t.epoch)>>, t)
    ELSE IF op = "lock" THEN _format_command(imei, L1, <<>>, t)
    ELSE _format_command(imei, S5, <<>>, t)

\* unlock(lock_id, reset_time) / lock(lock_id) / get_status(lock_id) up to the
\* call of _send_command: ValueError "not recognized", or the frame formatted
CallBegin(c, op, lock_id, reset_time, t) ==
    /\ calls[c].pc = "idle"
    /\ \A d \in Calls : d < c => calls[d].pc # "idle"
    /\ op # "unlock" => reset_time
    /\ calls' = [calls EXCEPT ![c] =
           IF NotRecognized(lock_info, lock_id)
           THEN [NoCall EXCEPT !.pc = "done", !.op = op, !.lock_id = lock_id,
                               !.reset_time = reset_time, !.res = "NotRecognized"]
           ELSE [NoCall EXCEPT !.pc = "check", !.op = op, !.lock_id = lock_id,
                               !.reset_time = reset_time,
                               !.cmd = CommandFor(op, lock_info[lock_id], reset_time, t)]]
    /\ UNCHANGED <<vSrv, vReg, vSess, vSock, pending, answer, vStop, vList, codec>>

\* _send_command: if lock_id not in self.connected_locks: raise ValueError
CallCheck(c) ==
    /\ calls[c].pc = "check"
    /\ calls' = [calls EXCEPT ![c] =
           IF ~Has(connected_locks, calls[c].lock_id)
           THEN [@ EXCEPT !.pc = "done", !.res = "NotConnected"]
           ELSE [@ EXCEPT !.pc = "fetch"]]
    /\ UNCHANGED <<vSrv, vReg, vSess, vSock, pending, answer, vStop, vList, codec>>

\* a fetch outside the try block: the KeyError reaches the caller
CallFetchUncaught(c) ==
    /\ calls[c].pc = "fetch"
    /\ calls' = [calls EXCEPT ![c] =
           IF ~Has(connected_locks, calls[c].lock_id)
           THEN [@ EXCEPT !.pc = "done", !.res = "KeyError"]
           ELSE [@ EXCEPT !.pc = "send", !.sock = Get(connected_locks, calls[c].lock_id)]]
    /\ UNCHANGED <<vSrv, vReg, vSess, vSock, pending, answer, vStop, vList, codec>>

\* _send_command: sock = self.connected_locks[lock_id]; a KeyError is caught
\* by except Exception and False is returned
CallFetch(c) ==
    /\ calls[c].pc = "fetch"
    /\ calls' = [calls EXCEPT ![c] =
           IF ~Has(connected_locks, calls[c].lock_id)
           THEN [@ EXCEPT !.pc = "done", !.res = "False"]
           ELSE [@ EXCEPT !.pc = "send", !.sock = Get(connected_locks, calls[c].lock_id)]]
    /\ UNCHANGED <<vSrv, vReg, vSess, vSock, pending, answer, vStop, vList, codec>>

\* _send_command: sock.send(command_bytes) returns and True is returned, or
\* it raises (socket closed by the server; broken pipe or reset once the
\* device's end is gone) and False is returned
CallSend(c, ok) ==
    /\ calls[c].pc = "send"
    /\ ok => ~sockClosed[calls[c].sock]
    /\ ~ok => sockClosed[calls[c].sock] \/ peer[calls[c].sock] # "up"
    /\ calls' = [calls EXCEPT ![c] =
           IF ok THEN [@ EXCEPT !.pc = "done", !.res = "True", !.sent = calls[c].sock]
           ELSE [@ EXCEPT !.pc = "done", !.res = "False"]]
    /\ wire' = IF ok THEN [wire EXCEPT ![calls[c].sock] = Append(@, calls[c].cmd)] ELSE wire
    /\ pending' = IF ok THEN [pending EXCEPT ![calls[c].sock] = Append(@, c)] ELSE pending
    /\ UNCHANGED <<vSrv, vReg, vSess, sockClosed, peer, inbuf, trace, answer, vStop, vList,
                   codec>>

\* the HTTP status the routes of api.py answer with
HttpStatus(res) ==
    IF res = "True" THEN 200
    ELSE IF res \in {"NotRecognized", "NotConnected"} THEN 404
    ELSE 500

\* ------------------------------------------------------------------- stop
\* stop(): self.running = False
StopBegin ==
    /\ stopPc = "idle"
    /\ server_socket # "none"
    /\ running' = FALSE
    /\ stopPc' = "close_listener"
    /\ UNCHANGED <<server_socket, acceptPc, vReg, vSess, vSock, vCall, stopIt, stopCur,
                   vList, codec>>

\* stop(): self.server_socket.close(), and the for loop creates its iterator
StopCloseListener ==
    /\ stopPc = "close_listener"
    /\ server_socket' = "closed"
    /\ stopIt' = NewIter(connected_locks)
    /\ stopPc' = "next"
    /\ UNCHANGED <<running, acceptPc, vReg, vSess, vSock, vCall, stopCur, vList, codec>>

\* stop(): for lock_id, sock in self.connected_locks.items(); the RuntimeError
\* of the iterator is raised outside the try and leaves stop()
StopNext ==
    /\ stopPc = "next"
    /\ LET n == IterNext(connected_locks, stopIt)
       IN  /\ stopIt' = n.it
           /\ stopCur' = IF n.status = "item" THEN connected_locks[n.idx].v ELSE 0
           /\ stopPc' = IF n.status = "item" THEN "close"
                        ELSE IF n.status = "stop" THEN "clear"
                        ELSE "raised"
    /\ UNCHANGED <<vSrv, vReg, vSess, vSock, vCall, vList, codec>>

\* stop(): sock.close(); what was not read is discarded
StopCloseSock ==
    /\ stopPc = "close"
    /\ sockClosed' = [sockClosed EXCEPT ![stopCur] = TRUE]
    /\ inbuf' = [inbuf EXCEPT ![stopCur] = <<>>]
    /\ stopPc' = "next"
    /\ UNCHANGED <<vSrv, vReg, vSess, peer, wire, trace, vCall, stopIt, stopCur, vList,
                   codec>>

\* stop(): self.connected_locks.clear()
StopClear ==
    /\ stopPc = "clear"
    /\ connected_locks' = <<>>
    /\ stopPc' = "done"
    /\ UNCHANGED <<vSrv, lock_info, vSess, vSock, vCall, stopIt, stopCur, vList, codec>>

\* -------------------------------------------------------------- get_locks
\* info.get("imei", "Unknown") of lock_server.lock_info.get(lock_id, {})
ImeiOrUnknown(info, lock_id) ==
    IF info[lock_id] = NoneStr THEN <<"U", "n", "k", "n", "o", "w", "n">> ELSE info[lock_id]

\* get_locks(): the for loop creates its iterator
ListBegin ==
    /\ listPc = "idle"
    /\ server_socket # "none"
    /\ listIt' = NewIter(connected_locks)
    /\ listPc' = "next"
    /\ UNCHANGED <<vSrv, vReg, vSess, vSock, vCall, vStop, listOut, codec>>

\* get_locks(): one turn of for lock_id in lock_server.connected_locks; the
\* RuntimeError of the iterator leaves the route
ListNext ==
    /\ listPc = "next"
    /\ LET n == IterNext(connected_locks, listIt)
       IN  /\ listIt' = n.it
           /\ listOut' = IF n.status = "item"
                         THEN Append(listOut,
                                  [id |-> connected_locks[n.idx].k,
                                   imei |-> ImeiOrUnknown(lock_info, connected_locks[n.idx].k),
                                   connected |-> TRUE])
                         ELSE listOut
           /\ listPc' = IF n.status = "item" THEN "next"
                        ELSE IF n.status = "stop" THEN "done"
                        ELSE "raised"
    /\ UNCHANGED <<vSrv, vReg, vSess, vSock, vCall, vStop, codec>>

\* ------------------------------------------------------------------ Specs
\* what the devices send in each scenario
DispatchChunks ==
    { DeviceFrame(IMEI_A, Q0, << <<"3", "9", "5">> >>),
      DeviceFrame(IMEI_A, L0, << <<"0">> >>),
      DeviceFrame(IMEI_A, L0, << <<"1">> >>),
      DeviceFrame(IMEI_A, L0, <<>>) }
DispatchAddresses == {<<"10.0.0.1", 5001>>}

\* Dispatcher scenario: one remote address connecting time and again, and
\* the operator's calls
Next ==
    \/ Start
    \/ StartFails
    \/ AcceptLoop
    \/ \E s \in Socks, a \in DispatchAddresses : Accept(s, a)
    \/ \E s \in Socks, chunk \in DispatchChunks : DeviceSend(s, chunk)
    \/ \E s \in Socks : DeviceClose(s)
    \/ \E s \in Socks : SessionStep(s)
    \/ \E c \in Calls, op \in Ops, a \in DispatchAddresses, r \in BOOLEAN, t \in Instants :
           CallBegin(c, op, LockId(a), r, t)
    \/ \E c \in Calls : CallCheck(c) \/ CallFetch(c)
    \/ \E c \in Calls, ok \in BOOLEAN : CallSend(c, ok)

Spec == Init /\ [][Next]_vars

\* C1: unlock, lock and get_status on an identity that has no known IMEI fail
\* with ValueError "not recognized" at once: nothing is written to any
\* transport and neither the registry nor the device records change.
C1_UnknownLockBeforeIO ==
    [][\A c \in Calls :
          (/\ calls[c].pc = "idle"
           /\ calls'[c].pc # "idle"
           /\ lock_info[calls'[c].lock_id] = NoneStr)
              => /\ calls'[c].pc = "done"
                 /\ calls'[c].res = "NotRecognized"
                 /\ HttpStatus(calls'[c].res) = 404
                 /\ wire' = wire
                 /\ connected_locks' = connected_locks
                 /\ lock_info' = lock_info
                 /\ sockClosed' = sockClosed]_vars

\* a call failed as not recognized on an identity that is connected and has
\* sent no frame that decodes
C1_Witness ==
    \E c \in Calls :
        /\ calls[c].res = "NotRecognized"
        /\ Has(connected_locks, calls[c].lock_id)
        /\ lock_info[calls[c].lock_id] = NoneStr

\* C2: at most one command is outstanding (sent and not acknowledged) on a
\* connection at any time.
C2_OneOutstanding == \A s \in Socks : Len(pending[s]) <= 1

\* C3: the result of unlock is derived from the device's L0 response: a call
\* the device answered with a parameter other than "0" did not resolve as a
\* success, and a call it answered with "0" did.
C3_ResultFromResponse ==
    \A c \in Calls :
        calls[c].op = "unlock" =>
            /\ answer[c] = "Failed" => calls[c].res # "True"
            /\ answer[c] = "Success" => calls[c].res = "True"

\* C4: once the session of a device that has gone has terminated, every
\* command still outstanding on it has resolved with ConnectionLost, and the
\* registry does not hold its transport.
C4_ConnectionLost ==
    \A s \in Socks :
        sessPc[s] = "done" /\ peer[s] = "gone" =>
            /\ \A i \in 1..Len(pending[s]) : calls[pending[s][i]].res = "ConnectionLost"
            /\ ~(Has(connected_locks, sessId[s]) /\ Get(connected_locks, sessId[s]) = s)

\* the transport s is the one registered under its identity
Registered(s) == Has(connected_locks, sessId[s]) /\ Get(connected_locks, sessId[s]) = s

\* C5: the dispatcher writes only to a transport that is registered, and a
\* command whose identity is no longer registered fails with ValueError
\* "not connected".
C5_NoStaleTransport ==
    [][/\ \A s \in Socks : wire'[s] # wire[s] => Registered(s)
       /\ \A c \in Calls :
              (/\ calls[c].pc \in {"check", "fetch", "send"}
               /\ calls'[c].pc = "done"
               /\ ~Has(connected_locks, calls[c].lock_id))
                  => calls'[c].res = "NotConnected"]_vars

\* the call c has just had sock.send accept its frame
JustSent(c) == calls[c].pc = "send" /\ calls'[c].res = "True"

\* exactly one frame was written, on the transport the call holds
OneFrameWritten(c) ==
    /\ Len(wire'[calls[c].sock]) = Len(wire[calls[c].sock]) + 1
    /\ \A s \in Socks \ {calls[c].sock} : wire'[s] = wire[s]

\* the frame written last on s is the command of the operation of c: an
\* outbound frame addressed to imei whose code and parameters are those of
\* the operation
RightFrame(c, s, imei) ==
    LET frame == wire'[s][Len(wire'[s])]
        r == _parse_response(AsDeviceFrame(frame))
    IN  /\ startswith(frame, PREFIX_BYTES \o CMD_HEADER \o <<",">> \o MANUFACTURER \o <<",">>)
        /\ r.imei = imei
        /\ r.cmd = OpCode(calls[c].op)
        /\ calls[c].op = "unlock" =>
               /\ Len(r.params) = 3
               /\ r.params[1] = IF calls[c].reset_time THEN <<"0">> ELSE <<"1">>
        /\ calls[c].op \in {"lock", "get_status"} => r.params = <<>>

\* C12: an operation that sends writes exactly one frame, to the transport
\* registered under its identity and to no other, addressed to the IMEI
\* recorded for the identity: unlock sends L0 with first parameter "0" where
\* reset_time is true and "1" where it is false, lock sends L1 and get_status
\* sends S5, both without parameters.
C12_OneFrameToRegistered ==
    [][\A c \in Calls :
          JustSent(c) =>
              /\ OneFrameWritten(c)
              /\ RightFrame(c, calls[c].sock, lock_info[calls[c].lock_id])
              /\ Has(connected_locks, calls[c].lock_id)
              /\ Get(connected_locks, calls[c].lock_id) = calls[c].sock]_vars

\* Session scenario: several devices connected at once
NextSessions ==
    \/ Start
    \/ AcceptLoop
    \/ \E s \in Socks, a \in Addresses : Accept(s, a)
    \/ \E s \in Socks, chunk \in DeviceChunks : DeviceSend(s, chunk)
    \/ \E s \in Socks : DeviceClose(s)
    \/ \E s \in Socks : SessionStep(s)

SpecSessions == Init /\ [][NextSessions]_vars

\* Codec scenario: the encoder and the decoder applied to bounded inputs
SeqsUpTo(S, n) == UNION {[1..m -> S] : m \in 0..n}

CodecImeis == {IMEI_A, <<"8">>}
CodecCmds == {L0, L1, S5}
CodecFields == {<<"0">>, <<"1", "2">>, <<>>}

EncoderInputs ==
    { [NoCodec EXCEPT !.stage = "args", !.imei = i, !.cmd = c, !.params = ps] :
          i \in CodecImeis, c \in CodecCmds, ps \in SeqsUpTo(CodecFields, MaxParams) }

RawPrefixes == {<<>>, <<" ">>, <<"\n">>, <<XFF, XFF>>}
RawHeaders == {RSP_HEADER, CMD_HEADER, RSP_HEADER \o <<"X">>, <<"C", "M", "D", "R">>}
RawFields == {<<"8">>, <<>>}
RawSuffixes == {<<>>, <<"#">>, <<"#", "\n">>, <<",">>}

RawFrames ==
    { pre \o join(<<",">>, <<hdr>> \o fs) \o suf :
          pre \in RawPrefixes, hdr \in RawHeaders, fs \in SeqsUpTo(RawFields, MaxFields),
          suf \in RawSuffixes }

DecoderInputs == { [NoCodec EXCEPT !.stage = "raw", !.frame = f] : f \in RawFrames }

InitCodec == SysInit /\ codec \in EncoderInputs \cup DecoderInputs

\* _format_command applied to the arguments
CodecEncode(t) ==
    /\ codec.stage = "args"
    /\ codec' = [codec EXCEPT !.stage = "encoded",
                              !.frame = _format_command(codec.imei, codec.cmd, codec.params, t)]
    /\ UNCHANGED sysvars

\* the device repeats the frame
CodecEcho ==
    /\ codec.stage = "encoded"
    /\ codec' = [codec EXCEPT !.stage = "echoed", !.frame = AsDeviceFrame(codec.frame)]
    /\ UNCHANGED sysvars

\* _parse_response applied to the frame
CodecDecode ==
    /\ codec.stage \in {"encoded", "echoed", "raw"}
    /\ codec' = [codec EXCEPT !.stage = "decoded_" \o codec.stage,
                              !.out = _parse_response(codec.frame)]
    /\ UNCHANGED sysvars

NextCodec ==
    \/ \E t \in CodecInstants : CodecEncode(t)
    \/ CodecEcho
    \/ CodecDecode

SpecCodec == InitCodec /\ [][NextCodec]_vars

\* a field of a valid command: not empty, and free of the separator, the end
\* marker, whitespace and bytes that are not ASCII
ValidField(f) ==
    f # <<>> /\ \A i \in 1..Len(f) : f[i] \notin ({",", "#", XFF} \cup Whitespace)

ValidCommand ==
    /\ ValidField(codec.imei)
    /\ ValidField(codec.cmd)
    /\ \A i \in 1..Len(codec.params) : ValidField(codec.params[i])

\* C9 as stated: decoding the bytes _format_command produced for a valid
\* (imei, code, parameters) returns the same imei, code and parameter list.
C9_RoundTripOfEncoderOutput ==
    codec.stage = "decoded_encoded" /\ ValidCommand
        => /\ codec.out.imei = codec.imei
           /\ codec.out.cmd = codec.cmd
           /\ codec.out.params = codec.params

\* C9 as amended: decoding the inbound form of the bytes _format_command
\* produced for a valid (imei, code, parameters), that is the frame with the
\* 0xFFFF prefix dropped and the header *CMDS replaced by *CMDR, returns the
\* same imei, code and parameter list.
C9_RoundTripOfInboundForm ==
    codec.stage = "decoded_echoed" /\ ValidCommand
        => /\ ~codec.out.raised
           /\ codec.out.imei = codec.imei
           /\ codec.out.cmd = codec.cmd
           /\ codec.out.params = codec.params

C9_Witness ==
    /\ codec.stage = "decoded_echoed"
    /\ ValidCommand
    /\ Len(codec.params) = 2
    /\ codec.out.params = codec.params

\* the frame without its leading whitespace does not begin with *CMDR
HeaderMissing(frame) ==
    LET lead == {i \in 1..Len(frame) : \A j \in 1..i : frame[j] \in Whitespace}
        n == Cardinality(lead)
    IN  \/ Len(frame) - n < 5
        \/ <<frame[n + 1], frame[n + 2], frame[n + 3], frame[n + 4], frame[n + 5]>>
               # <<"*", "C", "M", "D", "R">>

\* the number of comma-separated fields of the frame
FieldCount(frame) == 1 + Cardinality({i \in 1..Len(frame) : frame[i] = ","})

\* C10: a frame that does not start with *CMDR after whitespace stripping, or
\* that has fewer than 5 comma-separated fields, decodes to (None, None, None),
\* never to a partially populated response, and the decoder does not raise.
C10_MalformedYieldsNones ==
    codec.stage = "decoded_raw" /\ (HeaderMissing(codec.frame) \/ FieldCount(codec.frame) < 5)
        => /\ ~codec.out.raised
           /\ codec.out.imei = NoneStr
           /\ codec.out.cmd = NoneStr
           /\ codec.out.params = NoneList

C10_Witness ==
    /\ codec.stage = "decoded_raw"
    /\ HeaderMissing(codec.frame)
    /\ FieldCount(codec.frame) >= 5
    /\ codec.out = ParseFail

\* a step of the device on connection s
DeviceStep(s) == DeviceClose(s) \/ \E chunk \in DeviceChunks : DeviceSend(s, chunk)

\* the transport registered under an identity (0: none)
TransportOf(d, lock_id) == IF Has(d, lock_id) THEN Get(d, lock_id) ELSE 0

\* C8: whatever the device of one connection sends and whenever it
\* disconnects, the steps of that device and of its session leave every other
\* identity's registry entry and device record, every other transport and
\* every other session as they were, and the accept loop where it was.
C8_Isolation ==
    [][\A s \in Socks :
          SessionStep(s) \/ DeviceStep(s) =>
              /\ \A k \in LockIds \ {sessId[s]} :
                     /\ lock_info'[k] = lock_info[k]
                     /\ TransportOf(connected_locks', k) = TransportOf(connected_locks, k)
              /\ \A t \in Socks \ {s} :
                     /\ sessPc'[t] = sessPc[t]
                     /\ sessId'[t] = sessId[t]
                     /\ sockClosed'[t] = sockClosed[t]
                     /\ peer'[t] = peer[t]
                     /\ inbuf'[t] = inbuf[t]
              /\ acceptPc' = acceptPc
              /\ server_socket' = server_socket
              /\ running' = running]_vars

\* one session was ended by what its device sent, and another device is
\* still registered, identified and being read
C8_Witness ==
    \E s, t \in Socks :
        /\ s # t
        /\ sessPc[s] = "done"
        /\ peer[s] = "up"
        /\ sessPc[t] = "recv"
        /\ Registered(t)
        /\ lock_info[sessId[t]] = IMEI_B
        /\ lock_info[sessId[s]] = IMEI_A
        /\ acceptPc \in {"loop", "accept"}

\* Shutdown scenario: stop() and get_locks() against the sessions of devices
\* that stay silent (they connect and disconnect, and send nothing)
NextShutdown ==
    \/ Start
    \/ AcceptLoop
    \/ AcceptFails
    \/ \E s \in Socks, a \in Addresses : Accept(s, a)
    \/ \E s \in Socks : DeviceClose(s)
    \/ \E s \in Socks : SessRegister(s)
    \/ \E s \in Socks : SessLoop(s)
    \/ \E s \in Socks : SessRecvError(s)
    \/ \E s \in Socks : SessRecvEof(s)
    \/ \E s \in Socks : SessFinCheck(s)
    \/ \E s \in Socks : SessFinDel(s)
    \/ \E s \in Socks : SessFinClose(s)
    \/ StopBegin
    \/ StopCloseListener
    \/ StopNext
    \/ StopCloseSock
    \/ StopClear
    \/ ListBegin
    \/ ListNext

SpecShutdown == Init /\ [][NextShutdown]_vars

\* C6: once stop() has finished, no session is left in a read on a transport
\* that stop() did not close.
C6_ShutdownComplete ==
    stopPc \in {"done", "raised"} =>
        \A s \in Socks : sessPc[s] = "recv" => sockClosed[s]

\* C7: get_locks() never fails, whatever the sessions and stop() do to the
\* registry while it iterates.
C7_ListNeverFails == listPc # "raised"

\* Stream scenario: one remote address connecting time and again, the byte
\* stream of each connection cut into reads in several ways; the trace of
\* every connection is recorded
FrameQ == DeviceFrame(IMEI_A, Q0, << <<"3", "9", "5">> >>)
FrameL == DeviceFrame(IMEI_A, L0, << <<"0">> >>)

\* the first bytes of a frame, up to the manufacturer field, and the rest
FrameHead(frame) == SubSeq(frame, 1, Len(RSP_HEADER) + 1 + Len(MANUFACTURER))
FrameRest(frame) == SubSeq(frame, Len(RSP_HEADER) + 2 + Len(MANUFACTURER), Len(frame))

StreamChunks ==
    { FrameQ,
      FrameL,
      DeviceFrame(IMEI_B, Q0, << <<"3", "9", "5">> >>),
      FrameL \o FrameQ,
      FrameHead(FrameQ),
      FrameRest(FrameQ),
      <<"g", "a", "r", "b", "a", "g", "e">> }

InitStream == ProgInit /\ trace = EmptyTrace /\ codec = NoCodec

NextStream ==
    \/ Start
    \/ AcceptLoop
    \/ \E s \in Socks, a \in DispatchAddresses : Accept(s, a)
    \/ \E s \in Socks, chunk \in StreamChunks : DeviceSend(s, chunk)
    \/ \E s \in Socks : DeviceClose(s)
    \/ \E s \in Socks : SessionStep(s)

SpecStream == InitStream /\ [][NextStream]_vars

\* the session of s has just handled a read: the entry the trace got for it
JustHandled(s) == Len(trace'.handled[s]) = Len(trace.handled[s]) + 1
LastHandled(tr, s) == tr.handled[s][Len(tr.handled[s])]

C13_DisconnectCauses ==
    [][\A s \in Socks :
          sessPc[s] \in {"loop", "recv"} /\ sessPc'[s] = "fin_check" =>
              /\ inbuf'[s] = inbuf[s]
              /\ peer[s] = "gone" \/ sockClosed[s] \/ ~running]_vars

ConnectionOpen(s) == sessPc[s] \in {"loop", "recv"} /\ ~sockClosed[s] /\ peer[s] = "up"

\* C15: the imei of a device record, once set, is neither cleared nor changed
\* for as long as the connection of its identity remains open, whatever the
\* device sends.
C15_ImeiNeverChanges ==
    [][\A s \in Socks :
          (/\ ConnectionOpen(s)
           /\ Registered(s)
           /\ lock_info[sessId[s]] # NoneStr)
              => lock_info'[sessId[s]] = lock_info[sessId[s]]]_vars

\* the read loop of s is running and has observed neither the end of the
\* stream nor an error
LoopRunning(s) == sessPc[s] \in {"loop", "recv"}

\* C16: a transport is in the registry if and only if the read loop of its
\* session is running and has observed neither the end of the stream nor a
\* fatal I/O error.
C16_RegisteredIffReading == \A s \in Socks : Registered(s) <=> LoopRunning(s)

\* no read of the connection s has decoded a frame so far
NothingDecoded(s) == \A i \in 1..Len(trace.handled[s]) : ~trace.handled[s][i].decoded

\* C17: a connection that has been accepted and has not decoded a frame of
\* its own has no device metadata: its identity has no imei, and unlock, lock
\* and get_status on it fail as not recognized; this also where an earlier
\* connection from the same remote address had identified its device.
C17_NoMetadataBeforeFirstFrame ==
    \A s \in Socks :
        sessPc[s] \in {"start", "loop", "recv"} /\ NothingDecoded(s) =>
            /\ lock_info[sessId[s]] = NoneStr
            /\ NotRecognized(lock_info, sessId[s])

\* the bytes of a stream cut at every end marker: the frames, and what
\* follows the last end marker
Pieces(bytes) == split(bytes, "#")

\* the stream is a sequence of complete inbound frames and nothing else
WholeFrames(bytes) ==
    /\ Pieces(bytes)[Len(Pieces(bytes))] = <<>>
    /\ \A i \in 1..(Len(Pieces(bytes)) - 1) : startswith(Pieces(bytes)[i], RSP_HEADER)

\* the responses the frames of the stream decode to, in the order of the stream
ResponsesOf(bytes) ==
    [i \in 1..(Len(Pieces(bytes)) - 1) |->
        LET r == _parse_response(Pieces(bytes)[i] \o <<"#">>)
        IN  <<r.imei, r.cmd, r.params>>]

IsDecoded(e) == e.decoded

\* the responses the session decoded and classified, in the order of its reads
ClassifiedOn(s) ==
    [i \in 1..Len(SelectSeq(trace.handled[s], IsDecoded)) |->
        LET e == SelectSeq(trace.handled[s], IsDecoded)[i]
        IN  <<e.imei, e.cmd, e.params>>]

\* C18: once a session that is still in its read loop has read everything its
\* device has sent, the responses it decoded and classified are the complete
\* frames of the stream, each once and in the order of their bytes, however
\* the stream was cut into reads.
C18_FramesOnceInOrder ==
    \A s \in Socks :
        (/\ LoopRunning(s)
         /\ inbuf[s] = <<>>
         /\ WholeFrames(Flatten(trace.sent[s])))
            => ClassifiedOn(s) = ResponsesOf(Flatten(trace.sent[s]))

\* C19: once stop() has returned, the registry is empty, and no session
\* registers an identity afterwards.
C19_RegistryStaysEmpty == stopPc = "done" => Used(connected_locks) = 0

\* Dispatcher and shutdown scenario: the operator's calls against one device
\* that identifies itself, its session disconnecting, and stop()
NextDispatchShutdown ==
    \/ Start
    \/ AcceptLoop
    \/ AcceptFails
    \/ \E s \in Socks, a \in DispatchAddresses : Accept(s, a)
    \/ \E s \in Socks : DeviceSend(s, FrameQ)
    \/ \E s \in Socks : DeviceClose(s)
    \/ \E s \in Socks : SessionStep(s)
    \/ \E c \in Calls, op \in Ops, a \in DispatchAddresses, r \in BOOLEAN, t \in Instants :
           CallBegin(c, op, LockId(a), r, t)
    \/ \E c \in Calls : CallCheck(c) \/ CallFetch(c)
    \/ \E c \in Calls, ok \in BOOLEAN : CallSend(c, ok)
    \/ StopBegin
    \/ StopCloseListener
    \/ StopNext
    \/ StopCloseSock
    \/ StopClear

SpecDispatchShutdown == Init /\ [][NextDispatchShutdown]_vars

\* the step of _send_command the call c is waiting to take
CallStep(c) == CallCheck(c) \/ CallFetch(c) \/ \E ok \in BOOLEAN : CallSend(c, ok)

\* C20: a call of unlock, lock or get_status ends with True, with False or
\* with ValueError (not recognized / not connected) and with nothing else;
\* it can always take its next step, whatever its identity's session and
\* stop() are doing; and no step of it changes the registry or the device
\* records.
C20_CallOutcomes ==
    [][\A c \in Calls :
          /\ calls[c].pc \in {"check", "fetch", "send"} => ENABLED CallStep(c)
          /\ calls'[c] # calls[c] =>
                 /\ connected_locks' = connected_locks
                 /\ lock_info' = lock_info
                 /\ calls'[c].pc = "done" =>
                        /\ calls'[c].res \in {"True", "False", "NotRecognized", "NotConnected"}
                        /\ HttpStatus(calls'[c].res) \in {200, 404, 500}]_vars

\* a call found its identity registered, stop() emptied the registry before
\* the call read the socket, and the call returned False
C20_Witness ==
    \E c \in Calls :
        /\ calls[c].pc = "done"
        /\ calls[c].res = "False"
        /\ calls[c].sock = 0
        /\ stopPc = "done"
        /\ \E s \in Socks : sessId[s] = calls[c].lock_id /\ sessPc[s] \in {"loop", "recv"}

====
